---------------------------- MODULE Spec2Model ----------------------------
(***************************************************************************)
(* Randomized-measurement readout symmetrization, as written in            *)
(* qiskit_experiments_tutorial_part2.ipynb (cell 04f65aad):                *)
(*   RandomizedMeasurement.circuits          -- the circuit variant        *)
(*                                              generator                  *)
(*   RandomizedMeasurementAnalysis._run_analysis / _swap_bitstring         *)
(*                                           -- the outcome reconciler     *)
(* Python lists are 0-based; the sequences below are 1-based, so element   *)
(* i of a Python list is element i+1 here.  Qubit and classical-bit        *)
(* indices keep their Python (0-based) values.  Bitstrings are sequences   *)
(* of 0/1, element 1 being the leftmost character of the Python string.    *)
(***************************************************************************)
EXTENDS Integers, Sequences, FiniteSets, TLC

VARIABLES
    args,        \* the arguments the experiment object was constructed with
    self,        \* the RandomizedMeasurement object: circuit, measured qubits, options
    generator,   \* state of the caller's numpy Generator object (when the seed is one)
    pc,          \* position of the running circuits() call: "idle", "loop"
    paulis,      \* circuits(): the drawn Pauli list
    circuits,    \* circuits(): the local list of built variant circuits
    calls,       \* the ended circuits() calls, in order: [circuits, ret] each
    data,        \* experiment_data.data(): sequence of [counts, metadata]
    apc,         \* position of _run_analysis: "start", "datum", "entries", "return", "done", "raised"
    di,          \* _run_analysis: index of the current datum
    ei,          \* _run_analysis: index of the current entry of counts.items()
    full_sig,    \* _run_analysis: the current datum's full-width signature
    bitstring,   \* _run_analysis: the key computed for the entry folded last
    combined_counts, \* _run_analysis: the accumulator dict, a function from keys to counts
    result,      \* _run_analysis: the returned AnalysisResultData value
    aerror,      \* _run_analysis: the exception that ended the call
    runs         \* the ended _run_analysis calls before the current one: [result, aerror] each

vars == <<args, self, generator, pc, paulis, circuits, calls,
          data, apc, di, ei, full_sig, bitstring, combined_counts, result, aerror, runs>>

genVars == <<args, self, generator, pc, paulis, circuits, calls>>
anaVars == <<data, apc, di, ei, full_sig, bitstring, combined_counts, result, aerror, runs>>

----------------------------------------------------------------------------
(* Bounds of the model *)

MaxQubits == 2      \* qubits of the base circuit: 1..MaxQubits
MaxClbits == 1      \* pre-existing classical bits of the base circuit: 0..MaxClbits
MaxMeas == 2        \* length of the measured-qubit list: 0..MaxMeas
MaxSamples == 2     \* explicit num_samples: 0..MaxSamples
MaxCalls == 2       \* circuits() calls on one experiment object
MaxData == 2        \* circuits whose results one analysis is given
MaxWidth == 2       \* classical bits of an analysed circuit: 1..MaxWidth
Shots == 2          \* shots per executed circuit: the sum of its counts
MaxRuns == 2        \* _run_analysis calls on one experiment data

(* Program constants *)

DefaultNumSamples == 10

----------------------------------------------------------------------------
(* Python values *)

None == [kind |-> "None"]
Unspecified == [kind |-> "Unspecified"]
PyInt(n) == [kind |-> "int", val |-> n]
PyList(l) == [kind |-> "list", val |-> l]
GeneratorObject == [kind |-> "Generator"]
Raised(exc) == [kind |-> "raised", exc |-> exc]

Bit == {0, 1}
Xor(a, b) == (a + b) % 2

RECURSIVE SeqsUpTo(_, _)
SeqsUpTo(S, n) ==
    IF n = 0 THEN {<<>>}
    ELSE LET shorter == SeqsUpTo(S, n - 1)
         IN shorter \cup {Append(s, x) : s \in {t \in shorter : Len(t) = n - 1}, x \in S}

SeqsOfLen(S, n) == {s \in SeqsUpTo(S, n) : Len(s) = n}

Range(s) == {s[i] : i \in 1..Len(s)}

(* list(range(a, b)) *)
PyRange(a, b) == [i \in 1..(IF b > a THEN b - a ELSE 0) |-> a + i - 1]

----------------------------------------------------------------------------
(* numpy random generator: a deterministic stream of bits from a state.    *)
(* The stream is a 4-bit linear congruential generator of full period.     *)

RngStates == 0..15
(* the states default_rng(None) is taken to start from: two of RngStates, *)
(* enough for two unseeded generators to differ                            *)
Entropy == {2, 11}
RngNext(s) == (5 * s + 3) % 16
RngBit(s) == (s \div 8) % 2

(* default_rng(seed) for an integer seed *)
default_rng(seed) == (3 * seed + 1) % 16

(* rng.integers(2, size=n): n bits, and the generator state afterwards *)
RECURSIVE integers(_, _)
integers(s, n) ==
    IF n = 0 THEN [bits |-> <<>>, state |-> s]
    ELSE LET rest == integers(RngNext(s), n - 1)
         IN [bits |-> <<RngBit(RngNext(s))>> \o rest.bits, state |-> rest.state]

(* random_pauli_list(num_qubits, size, phase=False, seed=rng): the z matrix *)
(* is drawn first, then the x matrix, each size x num_qubits, row-major.    *)
random_pauli_list(num_qubits, size, s) ==
    LET zs == integers(s, size * num_qubits)
        xs == integers(zs.state, size * num_qubits)
    IN [list |-> [r \in 1..size |->
                    [z |-> [i \in 1..num_qubits |-> zs.bits[(r - 1) * num_qubits + i]],
                     x |-> [i \in 1..num_qubits |-> xs.bits[(r - 1) * num_qubits + i]]]],
        state |-> xs.state]

(* the single-qubit gate a Pauli applies to its qubit i *)
PauliGate(pauli, i) ==
    IF pauli.z[i] = 0 THEN (IF pauli.x[i] = 0 THEN "I" ELSE "X")
    ELSE (IF pauli.x[i] = 0 THEN "Z" ELSE "Y")

(* whether a gate inverts the computational-basis value measured after it *)
Flips(gate) == gate \in {"X", "Y"}

----------------------------------------------------------------------------
(* RandomizedMeasurement.__init__ *)

RandomizedMeasurement(circuit, measured_qubits, num_samples, seed) ==
    [circuit |-> circuit,
     num_qubits |-> circuit.num_qubits,
     measured_qubits |->
        IF measured_qubits.kind = "None" THEN PyRange(0, circuit.num_qubits)
        ELSE measured_qubits.val,
     experiment_options |->
        [num_samples |-> IF num_samples.kind = "Unspecified" THEN PyInt(DefaultNumSamples)
                         ELSE num_samples,
         seed |-> seed]]

----------------------------------------------------------------------------
(* RandomizedMeasurement.circuits *)

(* lines 1027-1029: the number of samples the call draws *)
num_samples_of(exp) ==
    IF exp.experiment_options.num_samples.kind = "None"
    THEN 2 ^ exp.num_qubits
    ELSE exp.experiment_options.num_samples.val

(* rng_of with the integer seed dropped: every call seeds from entropy *)
rng_of_unseeded(seed, gen, entropy) ==
    IF seed.kind = "Generator" THEN gen ELSE entropy

(* lines 1031-1035: the state of the generator the call draws from;       *)
(* entropy is the state default_rng(None) takes from the operating system *)
rng_of(seed, gen, entropy) ==
    IF seed.kind = "Generator" THEN gen
    ELSE IF seed.kind = "int" THEN default_rng(seed.val)
    ELSE entropy

(* circ.compose(pauli, meas_qubits) and circ.measure(meas_qubits, ...)    *)
(* raise CircuitError for a qubit index outside the circuit and for a     *)
(* qubit named twice                                                       *)
QubitsAccepted(exp) ==
    /\ \A i \in 1..Len(exp.measured_qubits) :
          exp.measured_qubits[i] \in 0..(exp.num_qubits - 1)
    /\ \A i, j \in 1..Len(exp.measured_qubits) :
          exp.measured_qubits[i] = exp.measured_qubits[j] => i = j

(* Variant measuring into the first classical bits of the circuit *)
Variant_low_clbits(exp, pauli) ==
    LET circ_nc == exp.circuit.num_clbits
        meas_nc == Len(exp.measured_qubits)
        meas_clbits == PyRange(0, meas_nc)
    IN [num_qubits |-> exp.num_qubits,
        num_clbits |-> circ_nc + meas_nc,
        base_qubits |-> PyRange(0, exp.num_qubits),
        base_clbits |-> PyRange(0, circ_nc),
        gates |-> [i \in 1..meas_nc |-> PauliGate(pauli, i)],
        gate_qubits |-> exp.measured_qubits,
        measure_qubits |-> exp.measured_qubits,
        measure_clbits |-> meas_clbits,
        metadata |-> [rm_bits |-> meas_clbits, rm_sig |-> pauli.x]]

(* Variant recording the Pauli's z vector as the signature *)
Variant_z_sig(exp, pauli) ==
    LET circ_nc == exp.circuit.num_clbits
        meas_nc == Len(exp.measured_qubits)
        meas_clbits == PyRange(circ_nc, circ_nc + meas_nc)
    IN [num_qubits |-> exp.num_qubits,
        num_clbits |-> circ_nc + meas_nc,
        base_qubits |-> PyRange(0, exp.num_qubits),
        base_clbits |-> PyRange(0, circ_nc),
        gates |-> [i \in 1..meas_nc |-> PauliGate(pauli, i)],
        gate_qubits |-> exp.measured_qubits,
        measure_qubits |-> exp.measured_qubits,
        measure_clbits |-> meas_clbits,
        metadata |-> [rm_bits |-> meas_clbits, rm_sig |-> pauli.z]]

(* lines 1043-1054: the variant circuit built for one drawn Pauli *)
Variant(exp, pauli) ==
    LET circ_nc == exp.circuit.num_clbits
        meas_nc == Len(exp.measured_qubits)
        meas_clbits == PyRange(circ_nc, circ_nc + meas_nc)
    IN [num_qubits |-> exp.num_qubits,
        num_clbits |-> circ_nc + meas_nc,
        \* compose(self._circuit, circ_qubits, circ_clbits)
        base_qubits |-> PyRange(0, exp.num_qubits),
        base_clbits |-> PyRange(0, circ_nc),
        \* compose(pauli, meas_qubits)
        gates |-> [i \in 1..meas_nc |-> PauliGate(pauli, i)],
        gate_qubits |-> exp.measured_qubits,
        \* measure(meas_qubits, meas_clbits)
        measure_qubits |-> exp.measured_qubits,
        measure_clbits |-> meas_clbits,
        metadata |-> [rm_bits |-> meas_clbits, rm_sig |-> pauli.x]]

(* the value the method hands to its caller when the loop is over: the    *)
(* method body ends with the loop (line 1056); the "return circuits" of   *)
(* line 1058 is indented as a statement of the class, not of the method   *)
circuits_return(built) == None

(* lines 1020-1037 *)
circuits_begin ==
    /\ pc = "idle"
    /\ Len(calls) < MaxCalls
    /\ \E entropy \in Entropy :
          LET meas_nc == Len(self.measured_qubits)
              seed == self.experiment_options.seed
              drawn == random_pauli_list(meas_nc, num_samples_of(self),
                                         rng_of(seed, generator, entropy))
          IN /\ paulis' = drawn.list
             /\ generator' = IF seed.kind = "Generator" THEN drawn.state ELSE generator
    /\ circuits' = <<>>
    /\ pc' = "loop"
    /\ UNCHANGED <<args, self, calls>>

(* lines 1041-1056, one iteration of the loop *)
circuits_loop ==
    /\ pc = "loop"
    /\ Len(circuits) < Len(paulis)
    /\ IF QubitsAccepted(self)
       THEN \/ /\ circuits' = Append(circuits, Variant(self, paulis[Len(circuits) + 1]))
               /\ UNCHANGED <<pc, calls>>
            \* a Pauli on no qubits: whether the circuit library accepts the
            \* empty composition is not decided by this code
            \/ /\ Len(self.measured_qubits) = 0
               /\ calls' = Append(calls, [circuits |-> circuits, ret |-> Raised("CircuitError")])
               /\ pc' = "idle"
               /\ UNCHANGED circuits
       ELSE /\ calls' = Append(calls, [circuits |-> circuits, ret |-> Raised("CircuitError")])
            /\ pc' = "idle"
            /\ UNCHANGED circuits
    /\ UNCHANGED <<args, self, generator, paulis>>

(* the loop is exhausted: the method ends *)
circuits_end ==
    /\ pc = "loop"
    /\ Len(circuits) = Len(paulis)
    /\ calls' = Append(calls, [circuits |-> circuits, ret |-> circuits_return(circuits)])
    /\ pc' = "idle"
    /\ UNCHANGED <<args, self, generator, paulis, circuits>>

----------------------------------------------------------------------------
(* The experiments the generator is checked on *)

Circuits == [num_qubits : 1..MaxQubits, num_clbits : 0..MaxClbits]

MeasuredQubitsArgs ==
    {None} \cup {PyList(l) : l \in SeqsUpTo(0..MaxQubits, MaxMeas)}

NumSamplesArgs == {Unspecified, None} \cup {PyInt(n) : n \in 0..MaxSamples}

SeedArgs == {None, PyInt(0), PyInt(1), GeneratorObject}

AnalysisIdle ==
    /\ data = <<>>
    /\ apc = "off"
    /\ di = 0
    /\ ei = 0
    /\ full_sig = <<>>
    /\ bitstring = <<>>
    /\ combined_counts = <<>>
    /\ result = None
    /\ aerror = None
    /\ runs = <<>>

InitGen ==
    /\ args \in [circuit : Circuits, measured_qubits : MeasuredQubitsArgs,
                 num_samples : NumSamplesArgs, seed : SeedArgs]
    /\ self = RandomizedMeasurement(args.circuit, args.measured_qubits,
                                    args.num_samples, args.seed)
    /\ generator \in (IF args.seed.kind = "Generator" THEN {0, 5} ELSE {0})
    /\ pc = "idle"
    /\ paulis = <<>>
    /\ circuits = <<>>
    /\ calls = <<>>
    /\ AnalysisIdle

NextGen ==
    \/ circuits_begin /\ UNCHANGED anaVars
    \/ circuits_loop /\ UNCHANGED anaVars
    \/ circuits_end /\ UNCHANGED anaVars

SpecGen == InitGen /\ [][NextGen]_vars

----------------------------------------------------------------------------
(* Properties of the generator, checked under SpecGen *)

Returned(n) == calls[n].ret.kind # "raised"

AllVariants ==
    Range(circuits) \cup UNION {Range(calls[n].circuits) : n \in 1..Len(calls)}

(* the classical bits an ideal (noise-free) run of a variant leaves, for   *)
(* the values q the base circuit leaves in the qubits: each gate of the    *)
(* Pauli acts on its qubit, then each measured qubit is copied to its      *)
(* classical bit.  Only the measured positions are given.                  *)
IdealOutcome(v, q) ==
    LET flipped(j) == Cardinality({i \in 1..Len(v.gates) :
                          v.gate_qubits[i] = j /\ Flips(v.gates[i])}) % 2
        final == [j \in DOMAIN q |-> Xor(q[j], flipped(j))]
    IN [p \in Range(v.measure_clbits) |->
          final[v.measure_qubits[CHOOSE i \in 1..Len(v.measure_clbits) :
                                    v.measure_clbits[i] = p]]]

(* C5 as claimed: two circuits() calls with the same seed, an integer or a *)
(* Generator object, build identical sequences of Variants.                *)
C5_SameSeedSameVariants ==
    self.experiment_options.seed.kind \in {"int", "Generator"} =>
        \A a, b \in 1..Len(calls) :
            (Returned(a) /\ Returned(b)) => calls[a].circuits = calls[b].circuits

(* C5 amended: two circuits() calls on an experiment whose seed is an      *)
(* integer build identical sequences of Variants (same patterns in the     *)
(* same order, same reserved-bit layout).                                  *)
C5_IntSeedSameVariants ==
    self.experiment_options.seed.kind = "int" =>
        \A a, b \in 1..Len(calls) :
            (Returned(a) /\ Returned(b)) => calls[a].circuits = calls[b].circuits

C5_Witness ==
    /\ self.experiment_options.seed.kind = "int"
    /\ Len(calls) >= 2
    /\ Returned(1) /\ Returned(2)
    /\ Len(calls[2].circuits) >= 2
    /\ Len(self.measured_qubits) >= 2
    /\ calls[2].circuits[1].metadata.rm_sig # calls[2].circuits[2].metadata.rm_sig

(* C6: with c pre-existing classical bits and k measured qubits, every     *)
(* Variant's reserved positions are exactly c, c+1, ..., c+k-1 in measured *)
(* qubit order, disjoint from the base circuit's positions 0..c-1, which   *)
(* are the only ones the base circuit's operations write.                  *)
C6_ReservedBitsDisjoint ==
    \A v \in AllVariants :
        LET c == args.circuit.num_clbits
            k == Len(self.measured_qubits)
        IN /\ Len(v.metadata.rm_bits) = k
           /\ \A i \in 1..k : v.metadata.rm_bits[i] = c + (i - 1)
           /\ v.measure_clbits = v.metadata.rm_bits
           /\ Range(v.base_clbits) = 0..(c - 1)
           /\ Range(v.metadata.rm_bits) \cap Range(v.base_clbits) = {}
           /\ v.num_clbits = c + k

C6_Witness ==
    \E v \in AllVariants :
        /\ args.circuit.num_clbits >= 1
        /\ Len(v.metadata.rm_bits) >= 2
        /\ v.metadata.rm_bits[1] = args.circuit.num_clbits

(* C7: the recorded pattern is the bit-flip applied: rm_sig[i] is 1 iff    *)
(* the gate appended to the i-th measured qubit inverts its measured value *)
(* (X or Y), the i-th measured qubit is measured into the i-th reserved    *)
(* position, and XORing rm_sig onto a noise-free outcome at the reserved   *)
(* positions gives back the base circuit's values of the measured qubits.  *)
C7_PatternIsTheFlipApplied ==
    \A v \in AllVariants :
        /\ Len(v.metadata.rm_sig) = Len(self.measured_qubits)
        /\ \A i \in 1..Len(self.measured_qubits) :
              /\ (v.metadata.rm_sig[i] = 1) <=> Flips(v.gates[i])
              /\ v.gate_qubits[i] = self.measured_qubits[i]
              /\ v.measure_qubits[i] = self.measured_qubits[i]
              /\ v.measure_clbits[i] = v.metadata.rm_bits[i]
        /\ \A q \in [0..(v.num_qubits - 1) -> Bit] :
              \A i \in 1..Len(self.measured_qubits) :
                  Xor(IdealOutcome(v, q)[v.metadata.rm_bits[i]], v.metadata.rm_sig[i])
                     = q[self.measured_qubits[i]]

C7_Witness ==
    \E v \in AllVariants :
        /\ Len(v.gates) >= 2
        /\ v.measure_qubits = <<1, 0>>
        /\ v.gates[1] \in {"Y", "X"}
        /\ v.gates[2] = "Z"

(* C8 as claimed: circuits() hands its caller a sequence of exactly        *)
(* num_samples Variants, each carrying rm_bits and rm_sig.                 *)
C8_ReturnsTheVariants ==
    \A n \in 1..Len(calls) :
        Returned(n) =>
            /\ calls[n].ret.kind = "list"
            /\ Len(calls[n].ret.val) = num_samples_of(self)
            /\ \A i \in 1..Len(calls[n].ret.val) :
                  {"rm_bits", "rm_sig"} \subseteq DOMAIN calls[n].ret.val[i].metadata

(* C9 as claimed: when the caller gives no sample count, the number of     *)
(* Variants generated is 2^k, k the number of measured qubits.             *)
C9_DefaultSampleCount ==
    \A n \in 1..Len(calls) :
        (args.num_samples.kind \in {"Unspecified", "None"} /\ Returned(n)) =>
            Len(calls[n].circuits) = 2 ^ Len(self.measured_qubits)

(* C10 as claimed: circuits() fails with InvalidSpecError, producing no    *)
(* Variants, when the measured-qubit list has an index outside the         *)
(* circuit, a duplicate, or is empty while the sample count is positive.   *)
InvalidSpec ==
    \/ \E i \in 1..Len(self.measured_qubits) :
          self.measured_qubits[i] \notin 0..(args.circuit.num_qubits - 1)
    \/ \E i, j \in 1..Len(self.measured_qubits) :
          i # j /\ self.measured_qubits[i] = self.measured_qubits[j]
    \/ Len(self.measured_qubits) = 0 /\ num_samples_of(self) > 0

C10_InvalidSpecError ==
    \A n \in 1..Len(calls) :
        InvalidSpec =>
            /\ calls[n].ret = Raised("InvalidSpecError")
            /\ calls[n].circuits = <<>>

----------------------------------------------------------------------------
(* RandomizedMeasurementAnalysis *)

(* _swap_bit, line 1066 *)
_swap_bit(b) == IF b = 0 THEN 1 ELSE 0

(* Python's sig[-1 - i] for a 0-based i: element Len(sig) - i here *)
FromEnd(sig, i) == sig[Len(sig) - i]

(* reversed(...) *)
reversed(l) == [j \in 1..Len(l) |-> l[Len(l) + 1 - j]]

(* _swap_bitstring raises IndexError when sig[-1 - i] leaves the list *)
swap_raises(key, sig) == Len(key) > Len(sig)

(* _swap_bitstring without the reversal of the list *)
_swap_bitstring_unreversed(key, sig) ==
    [i \in 1..Len(key) |->
        IF FromEnd(sig, i - 1) # 0 THEN _swap_bit(key[i]) ELSE key[i]]

(* _swap_bitstring, lines 1092-1098 *)
_swap_bitstring(key, sig) ==
    reversed([i \in 1..Len(key) |->
                IF FromEnd(sig, i - 1) # 0 THEN _swap_bit(key[i]) ELSE key[i]])

(* lines 1077-1079: the pairs zip(clbits, sig) yields *)
zip(clbits, sig) ==
    [i \in 1..(IF Len(clbits) < Len(sig) THEN Len(clbits) ELSE Len(sig)) |->
        <<clbits[i], sig[i]>>]

(* full_sig[bit] = val raises IndexError when bit is no index of the list *)
full_sig_raises(num_bits, clbits, sig) ==
    \E i \in 1..Len(zip(clbits, sig)) : zip(clbits, sig)[i][1] >= num_bits

(* full_sig with the signature written to the first bits, rm_bits ignored *)
full_sig_of_unplaced(num_bits, clbits, sig) ==
    [p \in 1..num_bits |-> IF p <= Len(sig) THEN sig[p] ELSE 0]

(* lines 1077-1079: num_bits * [0], then full_sig[bit] = val for each     *)
(* pair in order, a later pair overwriting an earlier one                  *)
full_sig_of(num_bits, clbits, sig) ==
    LET pairs == zip(clbits, sig)
        last(b) == CHOOSE i \in 1..Len(pairs) :
                      /\ pairs[i][1] = b
                      /\ \A j \in (i + 1)..Len(pairs) : pairs[j][1] # b
    IN [p \in 1..num_bits |->
          IF \E i \in 1..Len(pairs) : pairs[i][1] = p - 1
          THEN pairs[last(p - 1)][2]
          ELSE 0]

(* the accumulation with a repeated key replacing the stored count *)
accumulate_overwrite(cc, key, val) ==
    [k \in DOMAIN cc \cup {key} |-> IF k = key THEN val ELSE cc[k]]

(* the accumulation with a repeated key keeping the count stored first *)
accumulate_keep_first(cc, key, val) ==
    [k \in DOMAIN cc \cup {key} |-> IF k \in DOMAIN cc THEN cc[k] ELSE val]

(* lines 1082-1085 *)
accumulate(cc, key, val) ==
    IF key \in DOMAIN cc
    THEN [cc EXCEPT ![key] = cc[key] + val]
    ELSE [k \in DOMAIN cc \cup {key} |-> IF k = key THEN val ELSE cc[k]]

(* the empty dict *)
EmptyDict == [k \in {} |-> 0]

(* run_analysis_begin with the accumulator kept from the call before *)
run_analysis_begin_kept ==
    /\ apc = "start"
    /\ UNCHANGED combined_counts
    /\ di' = 1
    /\ apc' = IF Len(data) = 0 THEN "return" ELSE "datum"
    /\ UNCHANGED <<data, ei, full_sig, bitstring, result, aerror, runs>>

(* line 1070 *)
run_analysis_begin ==
    /\ apc = "start"
    /\ combined_counts' = EmptyDict
    /\ di' = 1
    /\ apc' = IF Len(data) = 0 THEN "return" ELSE "datum"
    /\ UNCHANGED <<data, ei, full_sig, bitstring, result, aerror, runs>>

(* run_analysis_datum with the exception swallowed: the call returns what *)
(* has been folded so far                                                  *)
run_analysis_datum_partial ==
    /\ apc = "datum"
    /\ LET counts == data[di].counts
           metadata == data[di].metadata
       IN IF \/ Len(counts) = 0
             \/ ~({"rm_bits", "rm_sig"} \subseteq DOMAIN metadata)
             \/ full_sig_raises(Len(counts[1].key), metadata.rm_bits, metadata.rm_sig)
          THEN /\ result' = PyList(combined_counts)
               /\ apc' = "done"
               /\ UNCHANGED <<full_sig, ei>>
          ELSE /\ full_sig' = full_sig_of(Len(counts[1].key), metadata.rm_bits,
                                          metadata.rm_sig)
               /\ ei' = 1
               /\ apc' = "entries"
               /\ UNCHANGED result
    /\ UNCHANGED <<data, di, bitstring, combined_counts, aerror, runs>>

(* lines 1072-1079, for the datum the loop is at *)
run_analysis_datum ==
    /\ apc = "datum"
    /\ LET counts == data[di].counts
           metadata == data[di].metadata
       IN IF Len(counts) = 0
          THEN \* next(iter(counts)) on an empty dict
               /\ aerror' = Raised("StopIteration")
               /\ apc' = "raised"
               /\ UNCHANGED <<full_sig, ei>>
          ELSE IF ~({"rm_bits", "rm_sig"} \subseteq DOMAIN metadata)
          THEN /\ aerror' = Raised("KeyError")
               /\ apc' = "raised"
               /\ UNCHANGED <<full_sig, ei>>
          ELSE IF full_sig_raises(Len(counts[1].key), metadata.rm_bits, metadata.rm_sig)
          THEN /\ aerror' = Raised("IndexError")
               /\ apc' = "raised"
               /\ UNCHANGED <<full_sig, ei>>
          ELSE /\ full_sig' = full_sig_of(Len(counts[1].key), metadata.rm_bits,
                                          metadata.rm_sig)
               /\ ei' = 1
               /\ apc' = "entries"
               /\ UNCHANGED aerror
    /\ UNCHANGED <<data, di, bitstring, combined_counts, result, runs>>

(* lines 1080-1085, for the entry of counts.items() the loop is at *)
run_analysis_entry ==
    /\ apc = "entries"
    /\ ei <= Len(data[di].counts)
    /\ LET key == data[di].counts[ei].key
           val == data[di].counts[ei].val
       IN IF swap_raises(key, full_sig)
          THEN /\ aerror' = Raised("IndexError")
               /\ apc' = "raised"
               /\ UNCHANGED <<bitstring, combined_counts, ei>>
          ELSE /\ bitstring' = _swap_bitstring(key, full_sig)
               /\ combined_counts' = accumulate(combined_counts, bitstring', val)
               /\ ei' = ei + 1
               /\ UNCHANGED <<aerror, apc>>
    /\ UNCHANGED <<data, di, full_sig, result, runs>>

(* the inner loop is exhausted: on to the next datum, or out of the loop *)
run_analysis_next ==
    /\ apc = "entries"
    /\ ei > Len(data[di].counts)
    /\ di' = di + 1
    /\ apc' = IF di = Len(data) THEN "return" ELSE "datum"
    /\ UNCHANGED <<data, ei, full_sig, bitstring, combined_counts, result, aerror, runs>>

(* lines 1088-1089 *)
run_analysis_return ==
    /\ apc = "return"
    /\ result' = PyList(combined_counts)
    /\ apc' = "done"
    /\ UNCHANGED <<data, di, ei, full_sig, bitstring, combined_counts, aerror, runs>>

----------------------------------------------------------------------------
(* The experiment data the analysis is checked on: the results of up to    *)
(* MaxData variant circuits of one experiment, whose base circuit has c    *)
(* classical bits and which measures k qubits into bits c..c+k-1; every    *)
(* circuit was run for Shots shots and every bitstring has c + k bits.  A  *)
(* histogram may be empty, and may end with an entry whose count is 0.     *)

Bitstrings(n) == SeqsOfLen(Bit, n)

(* the dicts (as item sequences, keys distinct) whose values sum to shots *)
RECURSIVE Histograms(_, _)
Histograms(keys, shots) ==
    IF shots = 0 THEN {<<>>}
    ELSE UNION {
           {<<[key |-> b, val |-> v]>> \o h : h \in Histograms(keys \ {b}, shots - v)}
           : b \in keys, v \in 1..shots}

(* a histogram of one entry, followed by an entry of count 0 *)
ZeroEnded(keys, shots) ==
    {<<[key |-> a, val |-> shots], [key |-> b, val |-> 0]>> :
        a \in keys, b \in keys} \ {<<[key |-> a, val |-> shots], [key |-> a, val |-> 0]>> :
        a \in keys}

Layouts == {l \in (0..MaxWidth) \X (1..MaxWidth) : l[1] + l[2] <= MaxWidth}

Data(c, k) ==
    [counts : Histograms(Bitstrings(c + k), Shots) \cup {<<>>}
                 \cup ZeroEnded(Bitstrings(c + k), Shots),
     metadata : [rm_bits : {PyRange(c, c + k)}, rm_sig : Bitstrings(k)]]

GeneratorIdle ==
    /\ args = None
    /\ self = None
    /\ generator = 0
    /\ pc = "off"
    /\ paulis = <<>>
    /\ circuits = <<>>
    /\ calls = <<>>

Init ==
    /\ GeneratorIdle
    /\ \E l \in Layouts : data \in SeqsUpTo(Data(l[1], l[2]), MaxData)
    /\ apc = "start"
    /\ di = 0
    /\ ei = 0
    /\ full_sig = <<>>
    /\ bitstring = <<>>
    /\ combined_counts = EmptyDict
    /\ result = None
    /\ aerror = None
    /\ runs = <<>>

Next ==
    \/ run_analysis_begin /\ UNCHANGED genVars
    \/ run_analysis_datum /\ UNCHANGED genVars
    \/ run_analysis_entry /\ UNCHANGED genVars
    \/ run_analysis_next /\ UNCHANGED genVars
    \/ run_analysis_return /\ UNCHANGED genVars

Spec == Init /\ [][Next]_vars

----------------------------------------------------------------------------
(* The analysis run again on the same experiment data, once the call       *)
(* before has ended: the ended call's outcome is kept in runs, the locals  *)
(* of the new call are set by run_analysis_begin                           *)

run_analysis_again ==
    /\ apc \in {"done", "raised"}
    /\ Len(runs) + 1 < MaxRuns
    /\ runs' = Append(runs, [result |-> result, aerror |-> aerror])
    /\ apc' = "start"
    /\ result' = None
    /\ aerror' = None
    /\ UNCHANGED <<data, di, ei, full_sig, bitstring, combined_counts>>

NextAgain ==
    \/ Next
    \/ run_analysis_again /\ UNCHANGED genVars

SpecAgain == Init /\ [][NextAgain]_vars

----------------------------------------------------------------------------
(* Experiment data with wiring faults: a tag without rm_bits or without    *)
(* rm_sig, a pattern one entry short, bitstrings one character short       *)

FaultyMetadata(c, k) ==
    [rm_bits : {PyRange(c, c + k)}, rm_sig : Bitstrings(k) \cup Bitstrings(k - 1)]
        \cup [rm_bits : {PyRange(c, c + k)}]
        \cup [rm_sig : Bitstrings(k)]

FaultyData(c, k) ==
    [counts : Histograms(Bitstrings(c + k) \cup Bitstrings(c + k - 1), Shots) \cup {<<>>},
     metadata : FaultyMetadata(c, k)]

InitFaulty ==
    /\ GeneratorIdle
    /\ \E l \in Layouts : data \in SeqsUpTo(FaultyData(l[1], l[2]), MaxData)
    /\ apc = "start"
    /\ di = 0
    /\ ei = 0
    /\ full_sig = <<>>
    /\ bitstring = <<>>
    /\ combined_counts = EmptyDict
    /\ result = None
    /\ aerror = None
    /\ runs = <<>>

SpecFaulty == InitFaulty /\ [][Next]_vars

----------------------------------------------------------------------------
(* Properties of the reconciler, checked under Spec *)

(* an entry has been folded and the loop is still at its datum: bitstring  *)
(* is the key computed from entry ei - 1 of datum di                       *)
Folded == apc = "entries" /\ ei > 1

FoldedKey == data[di].counts[ei - 1].key
FoldedVal == data[di].counts[ei - 1].val
FoldedMeta == data[di].metadata

(* the bits of a bitstring at the reserved positions, in measured-qubit    *)
(* order, character p of the bitstring being classical bit p               *)
RawOutcome(key, rm_bits) == [i \in 1..Len(rm_bits) |-> key[rm_bits[i] + 1]]

(* the per-bit exclusive-or of an outcome with a pattern *)
Untwirl(raw, sig) == [i \in 1..Len(raw) |-> Xor(raw[i], sig[i])]

RECURSIVE SumDict(_)
SumDict(f) ==
    IF DOMAIN f = {} THEN 0
    ELSE LET k == CHOOSE x \in DOMAIN f : TRUE
         IN f[k] + SumDict([x \in DOMAIN f \ {k} |-> f[x]])

RECURSIVE SumItems(_)
SumItems(items) ==
    IF items = <<>> THEN 0 ELSE items[1].val + SumItems(Tail(items))

RECURSIVE SumData(_)
SumData(d) ==
    IF d = <<>> THEN 0 ELSE SumItems(d[1].counts) + SumData(Tail(d))

(* the count the input histograms hold for bitstring b, all data together *)
InputCount(b) ==
    SumItems([i \in 1..Len(data) |->
        [val |-> SumItems(SelectSeq(data[i].counts, LAMBDA e : e.key = b))]])

Get(f, k) == IF k \in DOMAIN f THEN f[k] ELSE 0

(* C1 as claimed: the key an entry is accumulated into is the raw measured *)
(* outcome XORed bit for bit with the pattern, output bit i being input    *)
(* bit i flipped iff pattern[i], with no reordering or reversal.  Stated   *)
(* for circuits whose classical bits are all reserved ones, where the raw  *)
(* outcome is the whole bitstring.                                         *)
C1_KeyIsOutcomeXorPattern ==
    (Folded /\ Len(FoldedKey) = Len(FoldedMeta.rm_bits)) =>
        bitstring = Untwirl(RawOutcome(FoldedKey, FoldedMeta.rm_bits), FoldedMeta.rm_sig)

(* C2 as claimed: when every pattern is all false, every input bitstring   *)
(* appears in the combined histogram under the same bitstring, with the    *)
(* same count.                                                             *)
C2_IdentityPattern ==
    (/\ apc = "done"
     /\ \A i \in 1..Len(data) : \A j \in 1..Len(data[i].metadata.rm_sig) :
           data[i].metadata.rm_sig[j] = 0) =>
        \A i \in 1..Len(data) : \A e \in 1..Len(data[i].counts) :
            Get(result.val, data[i].counts[e].key) = InputCount(data[i].counts[e].key)

(* C3: when the analysis succeeds, the values of the combined histogram    *)
(* sum to the sum of all counts of all input histograms, also when several *)
(* input bitstrings untwirl to the same key.                               *)
C3_Conservation ==
    apc = "done" => SumDict(result.val) = SumData(data)

C3_Witness ==
    /\ apc = "done"
    /\ Len(data) = 2
    /\ Len(data[1].counts) = 2
    /\ data[1].metadata.rm_sig # data[2].metadata.rm_sig
    /\ Cardinality(DOMAIN result.val) = 2
    /\ SumData(data) = 2 * Shots

----------------------------------------------------------------------------
(* _run_analysis as a function of the experiment data, lines 1068-1089 *)

(* the datum makes the call raise: lines 1073, 1075-1076, 1079, 1097 *)
datum_raises(d) ==
    \/ Len(d.counts) = 0
    \/ ~({"rm_bits", "rm_sig"} \subseteq DOMAIN d.metadata)
    \/ full_sig_raises(Len(d.counts[1].key), d.metadata.rm_bits, d.metadata.rm_sig)
    \/ \E e \in 1..Len(d.counts) :
          swap_raises(d.counts[e].key,
                      full_sig_of(Len(d.counts[1].key), d.metadata.rm_bits, d.metadata.rm_sig))

(* lines 1080-1085, the inner loop over counts.items() *)
RECURSIVE fold_entries(_, _, _)
fold_entries(cc, items, sig) ==
    IF items = <<>> THEN cc
    ELSE fold_entries(accumulate(cc, _swap_bitstring(items[1].key, sig), items[1].val),
                      Tail(items), sig)

(* lines 1071-1085, the outer loop over the data *)
RECURSIVE fold_data(_, _)
fold_data(cc, d) ==
    IF d = <<>> THEN cc
    ELSE fold_data(fold_entries(cc, d[1].counts,
                                full_sig_of(Len(d[1].counts[1].key),
                                            d[1].metadata.rm_bits, d[1].metadata.rm_sig)),
                   Tail(d))

(* the value the call returns, or that it raises *)
run_analysis_of(d) ==
    IF \E i \in 1..Len(d) : datum_raises(d[i])
    THEN [kind |-> "raised"]
    ELSE PyList(fold_data(EmptyDict, d))

----------------------------------------------------------------------------
(* Properties of the reconciler on faulty data, checked under SpecFaulty *)

Ended == apc \in {"done", "raised"}

HistogramWellFormed(d) ==
    /\ Len(d.counts) > 0
    /\ {"rm_bits", "rm_sig"} \subseteq DOMAIN d.metadata =>
          \A e \in 1..Len(d.counts) :
              Len(d.counts[e].key) =
                  d.metadata.rm_bits[1] + Len(d.metadata.rm_bits)

MetadataWellFormed(d) ==
    /\ {"rm_bits", "rm_sig"} \subseteq DOMAIN d.metadata
    /\ Len(d.metadata.rm_sig) = Len(d.metadata.rm_bits)

(* some bitstring of the histogram has no character for the highest        *)
(* reserved position                                                       *)
HasShortBitstring(d) ==
    \E e \in 1..Len(d.counts) :
        Len(d.counts[e].key) <= d.metadata.rm_bits[Len(d.metadata.rm_bits)]

(* C11 as claimed: the analysis fails with MetadataMissingError whenever a *)
(* Variant lacks rm_bits or rm_sig, or its pattern has fewer entries than  *)
(* reserved positions; missing entries are never taken as 'no flip'.       *)
(* Stated for data whose histograms are non-empty, with full-width keys    *)
(* whenever the width is recorded, and without the name of the error: the  *)
(* call at least fails.                                                    *)
C11_MetadataMissingError ==
    (/\ Ended
     /\ \A i \in 1..Len(data) : HistogramWellFormed(data[i])
     /\ \E i \in 1..Len(data) : ~MetadataWellFormed(data[i])) =>
        apc = "raised"

(* C12 as claimed: the analysis fails with BitWidthMismatchError whenever  *)
(* some bitstring of a histogram is shorter than the reserved range needs  *)
(* (length <= highest reserved position), whichever entry it is.  Stated   *)
(* for data whose tags are complete and whose histograms are non-empty,    *)
(* and without the name of the error: the call at least fails.             *)
C12_BitWidthMismatchError ==
    (/\ Ended
     /\ \A i \in 1..Len(data) : MetadataWellFormed(data[i]) /\ Len(data[i].counts) > 0
     /\ \E i \in 1..Len(data) : HasShortBitstring(data[i])) =>
        apc = "raised"

(* C13: all or nothing.  When the call raises on some pair, at whatever    *)
(* position, no combined histogram is returned: the histogram folded from  *)
(* the pairs before the failure is never the result.  A result is returned *)
(* only when no pair raised, and it is the fold of all the pairs.          *)
C13_AllOrNothing ==
    /\ apc = "raised" => (result = None /\ aerror.kind = "raised")
    /\ (\E i \in 1..Len(data) : datum_raises(data[i])) => result = None
    /\ result.kind = "list" =>
          /\ apc = "done"
          /\ aerror = None
          /\ result = run_analysis_of(data)

C13_Witness ==
    /\ apc = "raised"
    /\ di = 2
    /\ DOMAIN combined_counts # {}
    /\ result = None

----------------------------------------------------------------------------
(* Order of the fold, checked under Spec *)

Orderings(n) ==
    {f \in [1..n -> 1..n] : \A i, j \in 1..n : f[i] = f[j] => i = j}

Permuted(d, f) == [i \in 1..Len(d) |-> d[f[i]]]

(* the pairs of d at the indices in S, in their order in d *)
Group(d, S) ==
    LET F[i \in 0..Len(d)] ==
            IF i = 0 THEN <<>>
            ELSE IF i \in S THEN Append(F[i - 1], d[i]) ELSE F[i - 1]
    IN F[Len(d)]

(* key-wise integer sum of two histograms *)
MergeSum(a, b) ==
    [k \in DOMAIN a \cup DOMAIN b |-> Get(a, k) + Get(b, k)]

(* C14: order independence.  The combined histogram the call returns is    *)
(* the one the analysis gives for every permutation of the pairs (and a    *)
(* call that raises, raises for every permutation); for every split of the *)
(* pairs into two groups it is the key-wise sum of the histograms of the   *)
(* two groups analysed separately.                                         *)
C14_OrderIndependence ==
    /\ apc = "done" =>
          /\ \A f \in Orderings(Len(data)) :
                run_analysis_of(Permuted(data, f)) = result
          /\ \A S \in SUBSET (1..Len(data)) :
                result.val = MergeSum(fold_data(EmptyDict, Group(data, S)),
                                      fold_data(EmptyDict,
                                                Group(data, (1..Len(data)) \ S)))
    /\ apc = "raised" =>
          \A f \in Orderings(Len(data)) :
              run_analysis_of(Permuted(data, f)).kind = "raised"

C14_Witness ==
    /\ apc = "done"
    /\ Len(data) = 2
    /\ data[1].counts # data[2].counts
    /\ data[1].metadata.rm_sig # data[2].metadata.rm_sig
    /\ Len(data[1].counts) = 2
    /\ \E k \in DOMAIN result.val :
          /\ result.val[k] > Get(fold_data(EmptyDict, <<data[1]>>), k)
          /\ result.val[k] > Get(fold_data(EmptyDict, <<data[2]>>), k)

----------------------------------------------------------------------------
(* The fold step by step, checked under Spec *)

(* the step folds the entry the inner loop is at *)
FoldStep == apc = "entries" /\ ei' = ei + 1

(* C16: while the analysis folds the entries in one at a time, no step     *)
(* lowers the count stored under a key or removes a key; a fold step       *)
(* changes exactly one key, the untwirled bitstring of the entry, by       *)
(* exactly the entry's count (creating it when absent), and no other step  *)
(* changes the combined histogram.  Counts are non-negative, 0 included.   *)
C16_MonotoneFold ==
    [][/\ \A k \in DOMAIN combined_counts :
             /\ k \in DOMAIN combined_counts'
             /\ combined_counts'[k] >= combined_counts[k]
       /\ FoldStep =>
             LET key == _swap_bitstring(data[di].counts[ei].key, full_sig)
                 val == data[di].counts[ei].val
             IN /\ DOMAIN combined_counts' = DOMAIN combined_counts \cup {key}
                /\ \A k \in DOMAIN combined_counts' :
                      combined_counts'[k] =
                          Get(combined_counts, k) + (IF k = key THEN val ELSE 0)
       /\ ~FoldStep => combined_counts' = combined_counts]_vars

C16_Witness ==
    /\ Folded
    /\ di = 2
    /\ FoldedVal > 0
    /\ combined_counts[bitstring] > FoldedVal
    /\ \E k \in DOMAIN combined_counts : combined_counts[k] = 0

----------------------------------------------------------------------------
(* The analysis called twice, checked under SpecAgain *)

(* C17: the analysis leaves its inputs unchanged: no step, of a call that  *)
(* returns or of one that raises, changes a histogram or a Variant's tag;  *)
(* every call starts from an empty combined histogram; so a second call on *)
(* the same data ends as the first did, with the same result or raising    *)
(* the same exception.                                                     *)
C17_InputsUnchanged ==
    [][/\ data' = data
       /\ (apc = "start" /\ apc' # "start") => combined_counts' = EmptyDict
       /\ (Len(runs') >= 1 /\ apc' \in {"done", "raised"}) =>
             /\ result' = runs'[1].result
             /\ aerror' = runs'[1].aerror]_vars

C17_Witness ==
    /\ Len(runs) = 1
    /\ apc = "done"
    /\ Len(data) = 2
    /\ result = runs[1].result
    /\ Cardinality(DOMAIN result.val) >= 2

----------------------------------------------------------------------------
(* Empty histograms, checked under Spec *)

(* the pairs whose histogram has entries *)
WithoutEmpty(d) == SelectSeq(d, LAMBDA x : Len(x.counts) > 0)

(* C18 as claimed: the analysis succeeds when some Variant's histogram is  *)
(* empty; that pair contributes nothing and the result is the one obtained *)
(* without it.                                                             *)
C18_EmptyHistogramSkipped ==
    (Ended /\ \E i \in 1..Len(data) : Len(data[i].counts) = 0) =>
        /\ apc = "done"
        /\ result = run_analysis_of(WithoutEmpty(data))

============================================================================
